---- MODULE Spec2Model ----
(***************************************************************************)
(* Network logging of simplemonitor (Loggers/network.py): the sender       *)
(* NetworkLogger, the receiving thread Listener, the frame they exchange   *)
(* (length byte + keyed digest + payload) and the thread that stops the    *)
(* Listener.                                                               *)
(***************************************************************************)
EXTENDS Integers, Sequences, FiniteSets, TLC

\* ------------------------------------------------------------------ bounds
\* Width of a byte in bits (8 in the program).
ByteBits == 3
\* mac.digest_size: the number of bytes of hmac's digest.
DigestSize == 2

ByteMod == 2 ^ ByteBits
Byte == 0 .. (ByteMod - 1)
DigestMod == ByteMod ^ DigestSize

\* batch_data[n] when n is no key of batch_data.
Absent == 0
Min(a, b) == IF a < b THEN a ELSE b

\* ------------------------------------------------------------- byte strings
\* s[a:b] of Python: indices from 0, b excluded, both clipped to the length,
\* never an IndexError.
PySlice(s, a, b) ==
    LET lo == Min(a, Len(s))
        hi == Min(b, Len(s))
    IN  IF lo >= hi THEN << >> ELSE SubSeq(s, lo + 1, hi)

\* b with bit i flipped.
FlipBit(b, i) == IF (b \div (2 ^ i)) % 2 = 1 THEN b - 2 ^ i ELSE b + 2 ^ i

\* ------------------------------------------------------------------- hmac
\* The keyed digest of hmac.new(key, msg).digest(): DigestSize bytes.  The
\* compression is a polynomial with an odd multiplier over the key bytes and
\* then the message bytes, so that two inputs that differ in one byte never
\* share a digest (the property of HMAC the protocol relies on).
RECURSIVE Absorb(_, _)
Absorb(h, s) ==
    IF s = << >> THEN h
    ELSE Absorb((h * 5 + Head(s) + 1) % DigestMod, Tail(s))

ToBytes(h) == [i \in 1 .. DigestSize |-> (h \div (ByteMod ^ (DigestSize - i))) % ByteMod]

Hmac(key, msg) == ToBytes(Absorb(Absorb(0, key), msg))

CompareAlways(a, b) == TRUE

\* hmac.compare_digest(their_digest, my_digest)
CompareDigest(a, b) == a = b

\* -------------------------------------------------------------- payloads
\* The monitors' names and the records ({'cls': ..., 'data': ...}) a batch
\* can hold, each written as one byte.
Names == {1, 2}
Recs == {1, 2}
\* The first byte of a payload tells its format.
Tag == [json |-> 5, pickle |-> 6]

Batches == [Names -> Recs \cup {Absent}]
EmptyBatch == [n \in Names |-> Absent]

RECURSIVE DumpFrom(_, _)
DumpFrom(batch, n) ==
    IF n \notin Names THEN << >>
    ELSE (IF batch[n] = Absent THEN << >> ELSE <<n, batch[n]>>) \o DumpFrom(batch, n + 1)

\* util.json_dumps(batch_data): the tag, then name and record of every entry.
JsonDumps(batch) == <<Tag.json>> \o DumpFrom(batch, 1)

\* The payload an older sender pickled.
PickleDumps(batch) == <<Tag.pickle>> \o DumpFrom(batch, 1)

\* The entries of a payload body; ok is FALSE when it is no list of
\* name, record pairs with strictly ascending names.
RECURSIVE ParseBody(_, _)
ParseBody(body, least) ==
    IF body = << >> THEN [ok |-> TRUE, batch |-> EmptyBatch]
    ELSE IF Len(body) < 2 \/ body[1] \notin Names \/ body[1] < least
            \/ body[2] \notin Recs
         THEN [ok |-> FALSE, batch |-> EmptyBatch]
         ELSE LET rest == ParseBody(SubSeq(body, 3, Len(body)), body[1] + 1)
              IN  [ok |-> rest.ok,
                   batch |-> [rest.batch EXCEPT ![body[1]] = body[2]]]

ParseFailed == [ok |-> FALSE, batch |-> EmptyBatch]

\* util.json_loads(serialized): the batch; ok is FALSE for JSONDecodeError.
JsonLoads(p) ==
    IF Len(p) = 0 \/ p[1] # Tag.json THEN ParseFailed ELSE ParseBody(Tail(p), 1)

\* pickle.loads(serialized): the batch; ok is FALSE when unpickling raises.
PickleLoads(p) ==
    IF Len(p) = 0 \/ p[1] # Tag.pickle THEN ParseFailed ELSE ParseBody(Tail(p), 1)

\* -------------------------------------------------------------- the frame
PayloadAfterLength(s, mac_size) == PySlice(s, mac_size, Len(s))

\* serialized[mac_size + 1:]
PayloadRegion(s, mac_size) == PySlice(s, mac_size + 1, Len(s))

\* serialized[1:mac_size + 1]
DigestRegion(s, mac_size) == PySlice(s, 1, mac_size + 1)

SendBytesNoLength(key, p) == Hmac(key, p) \o p

\* struct.pack('B', mac.digest_size) + mac.digest() + p
SendBytes(key, p) == <<DigestSize>> \o Hmac(key, p) \o p

\* ------------------------------------------------------------------ state
VARIABLES
    \* NetworkLogger
    doing_batch,    \* Logger.doing_batch
    batch_data,     \* Logger.batch_data
    skey,           \* NetworkLogger.key
    flush,          \* what the last process_batch call did
    saves,          \* the save_result2 calls of this cycle: "none" failed yet,
                    \* "skipped" (one failed), "after" (one took effect after
                    \* that), "raised" (an exception left save_result2)
    \* Listener
    pc,             \* where the Listener and its thread are
    running,        \* Listener.running
    sock,           \* Listener.sock: "none", "bound", "listening" or "closed"
    lkey,           \* Listener.key
    allow_pickle,   \* Listener.allow_pickle
    conn,           \* the accepted connection being read, << >> when none
    last,           \* what the Listener's last step did: the constructor, a pass
                    \* of the loop over a connection, a socket error
    failed,         \* whether a pass has failed since the thread started
    leaked,         \* whether a connection whose recv failed is still open
    \* the thread that stops the Listener
    ctl,            \* "idle", "flagged" (running = False), "closed" (socket closed)
    stopAt          \* the Listener's pc when running was set to False

senderVars == <<doing_batch, batch_data, skey, flush, saves>>
listenerVars == <<pc, running, sock, lkey, allow_pickle, conn, last, failed, leaked>>
ctlVars == <<ctl, stopAt>>
vars == <<doing_batch, batch_data, skey, flush, saves, pc, running, sock, lkey,
          allow_pickle, conn, last, failed, leaked, ctl, stopAt>>

\* The keys of the configuration ('key' as UTF-8 bytes).
Keys == {<<1>>, <<2>>}
\* The key the NetworkLogger was configured with.
SenderKey == <<1>>
NoKey == << >>

SenderAddr == "10.0.0.1"
PeerAddr == "10.0.0.2"

NoFlush == [outcome |-> "none", connects |-> 0, sends |-> 0, raised |-> FALSE,
            hadRecords |-> FALSE, whole |-> FALSE]

NoPass == [err |-> "none", region |-> "none", keyOk |-> FALSE, short |-> FALSE,
           sameDigest |-> FALSE, samePayload |-> FALSE, jsonOk |-> FALSE,
           pickled |-> FALSE, called |-> FALSE, addr |-> "", logged |-> FALSE,
           open |-> FALSE, given |-> FALSE]

Init ==
    /\ doing_batch = FALSE
    /\ batch_data = EmptyBatch
    /\ skey = SenderKey
    /\ flush = NoFlush
    /\ saves = "none"
    /\ pc = "new"
    /\ running = FALSE
    /\ sock = "none"
    /\ lkey = NoKey
    /\ allow_pickle = FALSE
    /\ conn = << >>
    /\ last = NoPass
    /\ failed = FALSE
    /\ leaked = FALSE
    /\ ctl = "idle"
    /\ stopAt = "none"

\* ------------------------------------------------------------ NetworkLogger
\* The monitors handed to save_result2: monitor.name, the record built from
\* monitor.__class__.__name__ and monitor.to_python_dict(), and whether
\* to_python_dict raises.
Monitors == [name : Names, rec : Recs, raises : {FALSE}]
                \cup [name : Names, rec : {1}, raises : {TRUE}]

\* Logger.start_batch: a new accumulation cycle starts from an empty batch.
start_batch ==
    /\ ~doing_batch
    /\ doing_batch' = TRUE
    /\ batch_data' = EmptyBatch
    /\ flush' = NoFlush
    /\ saves' = "none"
    /\ UNCHANGED skey
    /\ UNCHANGED listenerVars
    /\ UNCHANGED ctlVars

SaveOutcomeUncaught(doing, raises) ==
    IF ~doing THEN "rejected" ELSE IF raises THEN "raised" ELSE "stored"

\* What a call of save_result2 does: "rejected" (not doing a batch: logged,
\* return), "skipped" (to_python_dict raised: caught and logged) or "stored".
SaveOutcome(doing, raises) ==
    IF ~doing THEN "rejected" ELSE IF raises THEN "skipped" ELSE "stored"

\* The name parameter is logged only: the record is stored under monitor.name.
save_result2(name, monitor) ==
    LET out == SaveOutcome(doing_batch, monitor.raises)
    IN  /\ batch_data' = IF out = "stored"
                         THEN [batch_data EXCEPT ![monitor.name] = monitor.rec]
                         ELSE batch_data
        /\ saves' = CASE out = "raised" -> "raised"
                      [] out = "skipped" -> "skipped"
                      [] out = "stored" /\ saves = "skipped" -> "after"
                      [] OTHER -> saves
        /\ UNCHANGED <<doing_batch, skey, flush>>
        /\ UNCHANGED listenerVars
        /\ UNCHANGED ctlVars

CaughtNothing(exc) == FALSE

\* except Exception as e: every failure of the try block is caught.
Caught(exc) == TRUE

\* The failures the steps of process_batch can meet: json_dumps, connect,
\* send (which may also write a part only) and close; a step that is not
\* reached, or whose failure another one hides, meets none.
FlushInputs ==
    {in \in [dumps : BOOLEAN, connect : BOOLEAN, send : {"all", "part", "fail"},
             close : BOOLEAN] :
        /\ ~in.dumps => in.connect
        /\ (~in.dumps \/ ~in.connect) => in.send = "all"
        /\ (~in.dumps \/ ~in.connect \/ in.send = "fail") => in.close}

\* A connect reaches the Listener when its socket listens and its thread
\* waits in accept.
CanConnect == sock = "listening" /\ pc = "accept"

\* The bytes s.send(send_bytes) writes: all of them, or the first part only
\* (send returns the count, which process_batch does not read).
Written(bytes, send) ==
    CASE send = "all" -> bytes
      [] send = "part" -> SubSeq(bytes, 1, Len(bytes) - 1)
      [] OTHER -> << >>

ProcessBatchRunRetry(in) ==
    [outcome |-> IF ~in.dumps THEN "dumps" ELSE "connect",
     connects |-> IF ~in.dumps THEN 0 ELSE IF in.connect THEN 1 ELSE 2,
     sends |-> 0, raised |-> FALSE, hadRecords |-> FALSE, whole |-> FALSE,
     connected |-> FALSE,
     entry |-> [data |-> << >>, addr |-> SenderAddr, p |-> << >>, k |-> skey]]

\* The run of process_batch on the inputs in: the step that raised ("sent"
\* when none did), the calls made, whether send wrote the whole frame and the
\* connection the peer receives.
ProcessBatchRun(in) ==
    LET p == JsonDumps(batch_data)
        send_bytes == SendBytes(skey, p)
        exc == IF ~in.dumps THEN "dumps"
               ELSE IF ~in.connect THEN "connect"
               ELSE IF in.send = "fail" THEN "send"
               ELSE IF ~in.close THEN "close"
               ELSE "none"
        connected == in.dumps /\ in.connect
        sent == connected /\ in.send # "fail"
    IN  [outcome |-> IF exc # "none" THEN exc ELSE "sent",
         connects |-> IF in.dumps THEN 1 ELSE 0,
         sends |-> IF connected THEN 1 ELSE 0,
         raised |-> exc # "none" /\ ~Caught(exc),
         hadRecords |-> batch_data # EmptyBatch,
         whole |-> sent /\ Written(send_bytes, in.send) = send_bytes,
         connected |-> connected,
         entry |-> [data |-> IF sent THEN Written(send_bytes, in.send) ELSE << >>,
                    addr |-> SenderAddr,
                    p |-> IF sent THEN p ELSE << >>,
                    k |-> skey]]

\* conn, addr = self.sock.accept() returns the connection of a peer.
Accepted(entry) ==
    /\ conn' = <<entry>>
    /\ pc' = "recv"
    /\ UNCHANGED <<running, sock, lkey, allow_pickle, last, failed, leaked>>

process_batch(in) ==
    LET r == ProcessBatchRun(in)
    IN  /\ in.connect => CanConnect
        /\ flush' = [outcome |-> r.outcome, connects |-> r.connects, sends |-> r.sends,
                     raised |-> r.raised, hadRecords |-> r.hadRecords,
                     whole |-> r.whole]
        /\ IF r.connected THEN Accepted(r.entry) ELSE UNCHANGED listenerVars

\* Logger.end_batch: the flush.  process_batch runs, then the batch is
\* cleared; an exception leaving process_batch would leave end_batch too.
end_batch ==
    /\ doing_batch
    /\ \E in \in FlushInputs :
          /\ process_batch(in)
          /\ IF flush'.raised
             THEN UNCHANGED <<doing_batch, batch_data>>
             ELSE /\ doing_batch' = FALSE
                  /\ batch_data' = EmptyBatch
    /\ saves' = "none"
    /\ UNCHANGED skey
    /\ UNCHANGED ctlVars

\* What the senders on other hosts send: a batch in json, a pickled batch
\* (an older version), bytes in neither format.
PeerPayloads == {JsonDumps([EmptyBatch EXCEPT ![2] = 1]),
                 PickleDumps([EmptyBatch EXCEPT ![1] = 1]), <<7>>}

\* Another host connects and sends a frame made with a key of its own.
PeerConnect ==
    /\ CanConnect
    /\ \E p \in PeerPayloads, k \in Keys :
          Accepted([data |-> SendBytes(k, p), addr |-> PeerAddr, p |-> p, k |-> k])
    /\ UNCHANGED senderVars
    /\ UNCHANGED ctlVars

\* ----------------------------------------------------------------- Listener
\* The key argument of the constructor: None, "" or the key of the
\* configuration, the one the NetworkLogger has (the peers bring the others).
KeyArgs == {[given |-> FALSE, text |-> << >>], [given |-> TRUE, text |-> << >>],
            [given |-> TRUE, text |-> SenderKey]}

\* The allow_pickle argument: left out, True or False.
AllowArgs == {"default", "yes", "no"}

\* allow_pickle=True in the signature of __init__.
DefaultAllowPickle == TRUE

KeyIsNone(key) == ~key.given

SockListeningAfterInit == "listening"

\* self.sock after socket.socket(...) and self.sock.bind(('', port)): bound,
\* and not listening (the constructor does not call listen).
SockAfterInit == "bound"

\* if key is None or key == "":
KeyMissing(key) == ~key.given \/ key.text = << >>

\* Listener.__init__
Construct(key, allow) ==
    /\ pc = "new"
    /\ IF KeyMissing(key)
       THEN /\ pc' = "config_error"
            /\ UNCHANGED <<allow_pickle, sock, lkey, running, last>>
       ELSE /\ allow_pickle' = (IF allow = "default" THEN DefaultAllowPickle
                                ELSE allow = "yes")
            /\ last' = [NoPass EXCEPT !.given = (allow # "default")]
            /\ sock' = SockAfterInit
            /\ lkey' = key.text
            /\ running' = FALSE
            /\ pc' = "constructed"
    /\ UNCHANGED <<conn, failed, leaked>>
    /\ UNCHANGED senderVars
    /\ UNCHANGED ctlVars

\* Thread.start(): run will execute on a thread of its own.
Start ==
    /\ pc = "constructed"
    /\ pc' = "start"
    /\ UNCHANGED <<running, sock, lkey, allow_pickle, conn, last, failed, leaked>>
    /\ UNCHANGED senderVars
    /\ UNCHANGED ctlVars

\* self.running = True, the first statement of run.
RunFirst ==
    /\ pc = "start"
    /\ running' = TRUE
    /\ pc' = "loop"
    /\ UNCHANGED <<sock, lkey, allow_pickle, conn, last, failed, leaked>>
    /\ UNCHANGED senderVars
    /\ UNCHANGED ctlVars

WhileTrue == TRUE

\* while self.running:
WhileRunning == running

LoopTest ==
    /\ pc = "loop"
    /\ pc' = IF WhileRunning THEN "listen" ELSE "done"
    /\ last' = NoPass
    /\ UNCHANGED <<running, sock, lkey, allow_pickle, conn, failed, leaked>>
    /\ UNCHANGED senderVars
    /\ UNCHANGED ctlVars

\* errno of "Interrupted system call".
EINTR == 4
\* Other errnos: "Bad file descriptor", what a closed socket answers, and
\* "Software caused connection abort".
Errno == [EBADF |-> 9, ECONNABORTED |-> 103]
\* How a socket.error reads under fail_info[1][0]: an exception that cannot
\* be subscripted (TypeError), one with no arguments (IndexError), or one
\* whose first argument is its errno.
SocketErrors == {[shape |-> "opaque", errno |-> 0], [shape |-> "noargs", errno |-> 0],
                 [shape |-> "args", errno |-> EINTR],
                 [shape |-> "args", errno |-> Errno.EBADF],
                 [shape |-> "args", errno |-> Errno.ECONNABORTED]}

\* The errors of a call on a socket that was closed.
ClosedErrors == {e \in SocketErrors : e.shape = "opaque" \/ e.errno = Errno.EBADF}

\* except socket.error: the handler's effect on running, the listening
\* socket and the thread.
OnSocketError(e) ==
    IF e.shape = "opaque"
    THEN [running |-> running, sock |-> sock, pc |-> "crashed", logged |-> FALSE]
    ELSE IF e.shape = "args" /\ e.errno = EINTR
         THEN [running |-> FALSE, sock |-> "closed", pc |-> "loop", logged |-> FALSE]
         ELSE [running |-> running, sock |-> sock, pc |-> "loop", logged |-> running]

\* A socket.error raised while the accepted connection was open or not.
SocketFailure(e, open) ==
    LET h == OnSocketError(e)
    IN  /\ running' = h.running
        /\ sock' = h.sock
        /\ pc' = h.pc
        /\ last' = [NoPass EXCEPT !.err = "socket", !.logged = h.logged, !.open = open]

\* self.sock.listen(5)
Listen ==
    /\ pc = "listen"
    /\ IF sock = "closed"
       THEN \E e \in ClosedErrors : SocketFailure(e, FALSE)
       ELSE /\ sock' = "listening"
            /\ pc' = "accept"
            /\ UNCHANGED <<running, last>>
    /\ UNCHANGED <<lkey, allow_pickle, conn, failed, leaked>>
    /\ UNCHANGED senderVars
    /\ UNCHANGED ctlVars

\* accept raises socket.error: the socket was closed, or a failure that passes.
AcceptFails ==
    /\ pc = "accept"
    /\ \E e \in (IF sock = "closed" THEN ClosedErrors ELSE SocketErrors) : SocketFailure(e, FALSE)
    /\ UNCHANGED <<lkey, allow_pickle, conn, failed, leaked>>
    /\ UNCHANGED senderVars
    /\ UNCHANGED ctlVars

\* What the network may do to the bytes of a connection before recv returns
\* them: nothing, flip bit b of byte i, or cut them after n bytes.
Alterations(data) ==
    {[kind |-> "none", i |-> 0, b |-> 0]}
        \cup {[kind |-> "flip", i |-> i, b |-> b] : i \in 1 .. Len(data), b \in 0 .. (ByteBits - 1)}
        \cup {[kind |-> "cut", i |-> n, b |-> 0] : n \in 0 .. (Len(data) - 1)}

Received(data, alt) ==
    CASE alt.kind = "flip" -> [data EXCEPT ![alt.i] = FlipBit(data[alt.i], alt.b)]
      [] alt.kind = "cut" -> SubSeq(data, 1, alt.i)
      [] OTHER -> data

\* The region of the frame an alteration touches; "part" when the network
\* alters nothing and the peer wrote a part of its frame only.
Region(entry, alt) ==
    IF entry.data # SendBytes(entry.k, entry.p)
    THEN (IF alt.kind = "none" THEN "part" ELSE "cut")
    ELSE IF alt.kind = "cut" THEN "cut"
    ELSE IF alt.kind = "none" THEN "none"
    ELSE IF alt.i = 1 THEN "length"
    ELSE IF alt.i <= 1 + DigestSize THEN "digest"
    ELSE "payload"

\* The decode step of run, lines 128 to 144: "short" for the ValueError
\* raised on IndexError, "auth" for the mismatched MAC.
Decode(serialized, key) ==
    IF Len(serialized) = 0
    THEN [err |-> "short", payload |-> << >>, their |-> << >>, mine |-> << >>]
    ELSE LET mac_size == serialized[1]
             their_digest == DigestRegion(serialized, mac_size)
             payload == PayloadRegion(serialized, mac_size)
             my_digest == Hmac(key, payload)
         IN  [err |-> IF CompareDigest(their_digest, my_digest) THEN "none" ELSE "auth",
              payload |-> payload, their |-> their_digest, mine |-> my_digest]

\* The deserialize step of run, lines 145 to 148: json first, pickle on
\* JSONDecodeError.  allow_pickle is not read.
Deserialize(serialized, allow) ==
    LET j == JsonLoads(serialized)
        k == PickleLoads(serialized)
    IN  IF j.ok THEN [ok |-> TRUE, result |-> j.batch, jsonOk |-> TRUE, pickled |-> FALSE]
        ELSE [ok |-> k.ok, result |-> k.batch, jsonOk |-> FALSE, pickled |-> TRUE]

StaleAddr(entry) == SenderAddr

\* addr[0] of conn, addr = self.sock.accept(): the peer of the connection.
PeerOf(entry) == entry.addr

\* How a pass fails: in decode, in deserialize or in the aggregator.
PassFailures == {"short", "auth", "format", "aggregator"}

CrashOn(err) == IF err \in {"short", "auth", "format"} THEN "crashed" ELSE "loop"

\* Where the thread goes after an exception of the loop body that is no
\* socket.error: except Exception (line 165) and the except around the
\* aggregator call (line 151) log it, and the loop goes on.
AfterException(err) == "loop"

\* One pass over an accepted connection: what decode, deserialize and the call
\* of simplemonitor.update_remote_monitor do with the bytes received.
Pass(entry, alt, aggregatorOk) ==
    LET serialized == Received(entry.data, alt)
        d == Decode(serialized, lkey)
        s == Deserialize(d.payload, allow_pickle)
        err == IF d.err # "none" THEN d.err
               ELSE IF ~s.ok THEN "format"
               ELSE IF ~aggregatorOk THEN "aggregator"
               ELSE "ok"
        called == d.err = "none" /\ s.ok
    IN  [err |-> err,
         region |-> Region(entry, alt),
         keyOk |-> entry.k = lkey,
         short |-> Len(serialized) = 0 \/ Len(serialized) < 1 + serialized[1],
         sameDigest |-> d.err # "short" /\ d.their = d.mine,
         samePayload |-> d.err = "none" /\ d.payload = entry.p,
         jsonOk |-> d.err = "none" /\ s.jsonOk,
         pickled |-> d.err = "none" /\ s.pickled,
         called |-> called,
         addr |-> PeerOf(entry),
         logged |-> err # "ok",
         open |-> FALSE,
         given |-> FALSE]

\* The recv loop to the end of the data, conn.close(), then the pass.
Recv ==
    /\ pc = "recv"
    /\ \E result \in {Pass(conn[1], alt, aggregatorOk) :
                          alt \in Alterations(conn[1].data), aggregatorOk \in BOOLEAN} :
          /\ last' = result
          /\ pc' = IF result.err = "ok" THEN "loop" ELSE AfterException(result.err)
    /\ conn' = << >>
    /\ failed' = (failed \/ last'.err \in PassFailures)
    /\ UNCHANGED <<running, sock, lkey, allow_pickle, leaked>>
    /\ UNCHANGED senderVars
    /\ UNCHANGED ctlVars

\* conn.recv raises socket.error: conn.close() is not reached, and the handler
\* does not close the connection either.  It is read no more, and stays open.
RecvFails ==
    /\ pc = "recv"
    /\ \E e \in SocketErrors : SocketFailure(e, TRUE)
    /\ conn' = << >>
    /\ leaked' = TRUE
    /\ UNCHANGED <<lkey, allow_pickle, failed>>
    /\ UNCHANGED senderVars
    /\ UNCHANGED ctlVars

\* The runtime reclaims the socket object of a connection left open, which
\* closes it: no sooner than the local variable conn is bound to the next
\* connection (accept has returned) or the thread has ended.
Reclaim ==
    /\ leaked
    /\ pc \in {"recv", "done", "crashed"}
    /\ leaked' = FALSE
    /\ UNCHANGED <<pc, running, sock, lkey, allow_pickle, conn, last, failed>>
    /\ UNCHANGED senderVars
    /\ UNCHANGED ctlVars

\* The accepted connections that are open.
OpenConnections == Len(conn) + (IF leaked THEN 1 ELSE 0)

\* ------------------------------------------------- the thread that stops it
\* The main application sets running to False ...
StopFlag ==
    /\ ctl = "idle"
    /\ pc \notin {"new", "config_error", "constructed"}
    /\ running' = FALSE
    /\ ctl' = "flagged"
    /\ stopAt' = (IF pc \in {"start", "accept"} THEN pc ELSE "other")
    /\ UNCHANGED <<pc, sock, lkey, allow_pickle, conn, last, failed, leaked>>
    /\ UNCHANGED senderVars

\* ... and closes the listening socket.
StopClose ==
    /\ ctl = "flagged"
    /\ sock' = "closed"
    /\ ctl' = "closed"
    /\ UNCHANGED <<stopAt, pc, running, lkey, allow_pickle, conn,
                   last, failed, leaked>>
    /\ UNCHANGED senderVars

\* ------------------------------------------------------------ specification
ListenerNext == RunFirst \/ LoopTest \/ Listen \/ AcceptFails \/ Recv \/ RecvFails

Next ==
    \/ start_batch
    \/ \E name \in Names, monitor \in Monitors : save_result2(name, monitor)
    \/ end_batch
    \/ PeerConnect
    \/ \E key \in KeyArgs, allow \in AllowArgs : Construct(key, allow)
    \/ Start
    \/ ListenerNext
    \/ Reclaim
    \/ StopFlag
    \/ StopClose

Spec == Init /\ [][Next]_vars

\* The steps of the Listener's thread that wait for no peer.  The thread is
\* not starved, and accept on a closed socket fails.
ThreadStep == RunFirst \/ LoopTest \/ Listen \/ (sock = "closed" /\ AcceptFails)

FairSpec == Spec /\ WF_vars(ThreadStep)

\* -------------------------------------------------------------------- claims
\* A pass of the loop over the bytes of a connection has just ended.
Passed == last.err \notin {"none", "socket"}

\* C1: the aggregator is called only for a frame whose digest equals the
\* digest the Listener computes over the payload region with its own key; a
\* frame made with another key, and a frame of its own key with a bit of the
\* digest or payload region flipped, ends in the mismatched-MAC error and
\* nothing is forwarded.
C1_OnlyAuthenticatedForwarded ==
    /\ last.called => last.sameDigest
    /\ (Passed /\ (\/ ~last.keyOk /\ last.region = "none"
                   \/ last.keyOk /\ last.region \in {"digest", "payload"}))
          => (last.err = "auth" /\ ~last.called)

C1_Witness == last.err = "auth" /\ last.keyOk /\ last.region = "payload"

\* C2: a complete, unaltered frame made with the Listener's key passes the
\* digest comparison and its payload region is the payload that was framed.
C2_RoundTrip ==
    (Passed /\ last.keyOk /\ last.region = "none")
        => (last.err \notin {"short", "auth"} /\ last.sameDigest /\ last.samePayload)

C2_Witness ==
    /\ last.err = "ok" /\ last.keyOk /\ last.region = "none"
    /\ last.addr = SenderAddr /\ flush.outcome = "sent" /\ flush.hadRecords

\* C3: bytes that are empty or shorter than 1 + byte 0 end in the
\* too-short error, and nothing is forwarded.
C3_TruncatedIsTooShort == (Passed /\ last.short) => (last.err = "short" /\ ~last.called)

\* C4: with allow_pickle false, an authenticated payload that json cannot
\* parse is not handed to pickle: the pass ends in a format error and nothing
\* is forwarded.
C4_LegacyGated ==
    (Passed /\ last.err \notin {"short", "auth"} /\ ~last.jsonOk /\ ~allow_pickle)
        => (~last.pickled /\ last.err = "format" /\ ~last.called)

\* C5: a Listener constructed without the allow_pickle argument has
\* allow_pickle false.
C5_LegacyOffByDefault == (pc = "constructed" /\ ~last.given) => allow_pickle = FALSE

\* C6: a pass that fails in decode, in deserialize or in the aggregator
\* leaves the thread in the loop with running and the listening socket as
\* they were, and the loop test that follows goes on to listen and accept
\* when running is still true.
C6_FailureIsolated ==
    [][/\ (pc = "recv" /\ last'.err \in PassFailures)
            => (pc' = "loop" /\ running' = running /\ sock' = sock)
       /\ (pc = "loop" /\ last.err \in PassFailures /\ running /\ pc' # pc)
            => pc' = "listen"]_vars

C6_Witness == failed /\ last.err = "ok" /\ last.called /\ running

\* C7: a socket error while no stop was asked for is logged and the loop
\* goes on; the thread ends only after a stop was asked for.
C7_TransientFailureSurvived ==
    /\ (last.err = "socket" /\ ctl = "idle") => (pc = "loop" /\ running /\ last.logged)
    /\ pc \in {"done", "crashed"} => ctl # "idle"

C10_AtMostOnce == flush.connects <= 1 /\ flush.sends <= 1 /\ ~flush.raised

C10_Witness == flush.outcome = "send" /\ flush.connects = 1 /\ flush.sends = 1

\* C11: at most one accepted connection is open at any time, and the thread
\* is not in listen or accept while it holds a connection it is reading,
\* decoding, deserializing or forwarding.
C11_OneConnection ==
    /\ OpenConnections <= 1
    /\ pc \in {"loop", "listen", "accept"} => conn = << >>

\* C19: when the loop calls accept again, and when the thread has ended, every
\* connection it accepted has been closed.
C19_NoLeakedConnection == pc \in {"accept", "done", "crashed"} => ~leaked

\* C12: a call save_result2(name, monitor) made while a batch is accumulated,
\* with a monitor that serializes, leaves the monitor's record under name and
\* every other entry of the batch as it was.
C12_StoredUnderName ==
    [][\A name \in Names, monitor \in Monitors :
          (doing_batch /\ ~monitor.raises /\ save_result2(name, monitor))
              => /\ batch_data'[name] = monitor.rec
                 /\ \A other \in Names \ {name} : batch_data'[other] = batch_data[other]]_vars

\* C13: no exception leaves save_result2; a call made while no batch is
\* accumulated, or with a monitor whose serialization fails, leaves the batch
\* as it was; and a later call of the cycle with a monitor that serializes
\* stores its record.
C13_SaveFailureHarmless ==
    /\ [](saves # "raised")
    /\ [][(~doing_batch /\ ~doing_batch') => batch_data' = batch_data]_vars
    /\ [][(doing_batch /\ doing_batch' /\ <<batch_data, saves>>' # <<batch_data, saves>>)
            => \A name \in Names, monitor \in Monitors :
                  save_result2(name, monitor)
                      => /\ monitor.raises => batch_data' = batch_data
                         /\ (~monitor.raises /\ saves # "none")
                               => batch_data'[monitor.name] = monitor.rec]_vars

C13_Witness ==
    /\ saves = "after" /\ doing_batch
    /\ \A n \in Names : batch_data[n] # Absent

\* C14: a Listener is constructed only with a key that is neither None nor
\* empty; when the constructor raises the configuration error no socket
\* exists, no key and no running flag were set, and no thread can be started.
C14_ConfigErrorFirst ==
    /\ pc \notin {"new", "config_error"} => lkey # NoKey
    /\ pc = "config_error" => (sock = "none" /\ lkey = NoKey /\ ~running /\ ~ENABLED Start)

C14_Witness == pc = "config_error" /\ sock = "none"

\* C15: the bytes process_batch writes for the payload P are one byte, the
\* digest's length, then the digest of P under the sender's key, then P: 1 +
\* DigestSize + Len(P) bytes.
C15_FrameLayout ==
    (conn # << >> /\ conn[1].addr = SenderAddr /\ flush.outcome = "sent" /\ flush.whole)
        => LET frame == conn[1].data
               P == conn[1].p
           IN  /\ Len(frame) = 1 + DigestSize + Len(P)
               /\ frame[1] = DigestSize
               /\ SubSeq(frame, 2, 1 + DigestSize) = Hmac(skey, P)
               /\ Len(Hmac(skey, P)) = DigestSize
               /\ SubSeq(frame, 2 + DigestSize, Len(frame)) = P

C15_Witness ==
    /\ conn # << >> /\ conn[1].addr = SenderAddr
    /\ flush.outcome = "sent" /\ flush.whole /\ flush.hadRecords
    /\ Len(conn[1].data) = 1 + DigestSize + Len(conn[1].p)
    /\ Len(conn[1].p) > 1

\* C20: a flush whose connect, send and close reported no failure has
\* written the whole frame, and the Listener with the same key, reading what
\* it wrote, finds it long enough and authentic.
C20_CompleteTransmission ==
    /\ flush.outcome = "sent" => flush.whole
    /\ (Passed /\ last.addr = SenderAddr /\ last.keyOk /\ flush.outcome = "sent"
            /\ last.region \in {"none", "part"})
          => last.err \notin {"short", "auth"}

\* C16: the socket is bound once, by the constructor, which leaves it bound
\* and not listening; it starts to listen in the listen step of the loop in
\* run, and every iteration of the loop issues listen before its accept.
C16_ListenEveryIteration ==
    /\ [](pc = "constructed" => sock = "bound")
    /\ [][(sock # "bound" /\ sock' = "bound") => pc = "new"]_vars
    /\ [][(sock # "listening" /\ sock' = "listening") => (pc = "listen" /\ pc' = "accept")]_vars
    /\ [][(pc = "loop" /\ pc' \notin {"loop", "done"}) => pc' = "listen"]_vars
    /\ [][(pc # "accept" /\ pc' = "accept") => pc = "listen"]_vars

C16_Witness == pc = "accept" /\ sock = "listening" /\ failed

\* C16 as the specification states it: the socket listens from construction
\* on, and the loop has no listen step.
C16_ListeningEnteredOnce ==
    /\ pc = "constructed" => sock = "listening"
    /\ pc # "listen"

\* C17: the step that ends the reading of an accepted connection leaves no
\* connection in hand, and what it forwards, if anything, carries the address
\* of that connection's peer; the aggregator is called for a closed
\* connection only, and only by such a step; the next connection is accepted
\* only from accept, when none is in hand, so that results are forwarded in
\* the order of acceptance.
C17_OneFramePerConnection ==
    /\ [](last.called => (~last.open /\ last.err \in {"ok", "aggregator"}))
    /\ [][(pc = "recv" /\ pc' # "recv")
            => /\ conn' = << >>
               /\ last'.called => last'.addr = conn[1].addr]_vars
    /\ [][(last'.called /\ last' # last) => (pc = "recv" /\ pc' = "loop")]_vars
    /\ [][(pc # "recv" /\ pc' = "recv")
            => (pc = "accept" /\ conn = << >> /\ Len(conn') = 1)]_vars

C17_Witness ==
    /\ last.called /\ last.addr = PeerAddr /\ last.err = "ok"
    /\ flush.outcome = "sent" /\ flush.whole

\* C18: once running was set to False and the listening socket closed, the
\* test of the loop ends the thread: it enters no further iteration.
C18_StopNotLost ==
    [][(ctl = "closed" /\ pc = "loop" /\ pc' # pc) => pc' = "done"]_vars

====
